---- MODULE Spec2Model ----
(***************************************************************************)
(* Model of pdf_reducer.py: the quality binary search of                   *)
(* compress_pdf_to_size, its selection policy and output write, and the    *)
(* batch loop of main that calls it once per selected file.                *)
(*                                                                         *)
(* A candidate ("pdf_bytes") is modelled by the record                     *)
(*   [size |-> len(pdf_bytes), q |-> quality it was built at, of |-> path  *)
(*    of the document it was rendered from];                               *)
(* a path is the pair <<directory, file name>>.                            *)
(***************************************************************************)
EXTENDS Integers, Naturals, Sequences, FiniteSets, TLC

VARIABLES
    files,            \* main: file_paths, the selection
    output_dir,       \* main: output_dir ("" when the dialog was cancelled)
    target_bytes,     \* compress_pdf_to_size: target_bytes
    max_iters,        \* compress_pdf_to_size: max_iters
    builder,          \* what build_flattened_pdf returns per quality
    fs,               \* the file system: path -> content
    pc,               \* position of the program
    idx,              \* main: index of the file the for loop is at
    openDocs,         \* indices of the files whose document handle is open
    opens,            \* per file: number of fitz.open(input_pdf) that succeeded
    outcome,          \* per file: "none", "Keep", "Replace" or "Fail"
    original_size,
    low_q, high_q, iterations, q,
    best_under, best_under_size,
    best_over, best_over_size,
    chosen_bytes, chosen_size,
    probes,           \* candidates the builder returned in this run, in order
    builds,           \* builder invocations started in this run
    writes,           \* log of the file writes of the whole batch
    runs              \* log of the calls of compress_pdf_to_size that returned

vars == <<files, output_dir, target_bytes, max_iters, builder, fs, pc, idx,
          openDocs, opens, outcome, original_size, low_q, high_q, iterations,
          q, best_under, best_under_size, best_over, best_over_size,
          chosen_bytes, chosen_size, probes, builds, writes, runs>>

params == <<files, output_dir, target_bytes, max_iters, builder>>

search == <<low_q, high_q, iterations, q, best_under, best_under_size,
            best_over, best_over_size, probes, builds>>

----------------------------------------------------------------------------
(* Bounds of the model *)

\* the synthetic "any builder" returns sizes in 0..MaxSize
MaxSize == 3

----------------------------------------------------------------------------
(* Values *)

NoPath == <<"", "">>

\* Python's None for a bytes object / the content of a path that has no file
None == [size |-> -1, q |-> 0, of |-> NoPath]

\* Python's None for best_over_size / chosen_size
NoSize == -1

\* line 84: low_q, high_q = 10, 95
LowQ0 == 10
HighQ0 == 95

Qualities == LowQ0..HighQ0

\* line 65: max_iters=8
DefaultMaxIters == 8

PathA == <<"in", "a.pdf">>
PathB == <<"in", "b.pdf">>

Dirs == {"in", "out"}
Names == {"a.pdf", "b.pdf"}
AllPaths == Dirs \X Names

Basename(path) == path[2]

Join(dir, name) == <<dir, name>>

----------------------------------------------------------------------------
(* The candidate builder *)

\* A builder given as a function of the quality:
\*   size(q) = a*q + b + (jump if q >= k)
FnSize(bd, qq) == bd.a * qq + bd.b + (IF qq >= bd.k THEN bd.jump ELSE 0)

\* len(build_flattened_pdf(doc, quality=q, dpi=dpi)): the sizes the builder
\* can return at quality qq.  A "free" builder may return any size of
\* bd.sizes at each quality (no quality is built twice in a run, so every
\* choice sequence is a function of the quality).
BuildSizes(bd, qq) ==
    IF bd.kind = "free" THEN bd.sizes ELSE {FnSize(bd, qq)}

Candidate(size, qq, input) == [size |-> size, q |-> qq, of |-> input]

----------------------------------------------------------------------------
(* The expressions of compress_pdf_to_size *)

\* Variants of the expressions below, each changed the way a slip in the
\* code would change it; the properties at the end are checked against them.
LoopCondOffByOne(lo, hi, it, mx) == lo <= hi /\ it <= mx
MidTop(lo, hi) == hi
FeasibleStrict(size, target) == size < target
BetterOverLatest(size, bo, bos) == TRUE
RaiseLowStuck(qq) == qq
LowerHighUp(qq) == qq + 1
KeepOriginalOnlyLarger(cb, cs, os) == cb = None \/ cs > os
StartLowKept(left) == left
CloseDocForgotten(docs, i) == docs
LowerHighStuck(qq) == qq
KeepOriginalNoneUnchecked(cb, cs, os) == cs >= os
ChosenOverFirst ==
    IF best_over # None THEN <<best_over, best_over_size>>
    ELSE IF best_under # None THEN <<best_under, best_under_size>>
    ELSE <<None, NoSize>>

\* line 93: while low_q <= high_q and iterations < max_iters
LoopCond(lo, hi, it, mx) == lo <= hi /\ it < mx

\* line 84: low_q starts at 10 in every call, whatever a call before left
StartLow(left) == LowQ0

\* line 114: doc.close()
CloseDoc(docs, i) == docs \ {i}

\* line 94: q = (low_q + high_q) // 2
Mid(lo, hi) == (lo + hi) \div 2

\* line 103: if size <= target_bytes
Feasible(size, target) == size <= target

\* line 104: if size > best_under_size
BetterUnder(size, bus) == size > bus

\* line 109: if best_over is None or size < best_over_size
BetterOver(size, bo, bos) == bo = None \/ size < bos

\* line 107: low_q = q + 1
RaiseLow(qq) == qq + 1

\* line 112: high_q = q - 1
LowerHigh(qq) == qq - 1

\* line 127: if chosen_bytes is None or chosen_size >= original_size
KeepOriginal(cb, cs, os) == cb = None \/ cs >= os

\* lines 133-139: the output path
OutputPath(input, outdir) ==
    IF outdir # "" THEN Join(outdir, Basename(input)) ELSE input

\* os.path.getsize(input_pdf)
GetSize(path) == fs[path].size

Input == files[idx]

----------------------------------------------------------------------------
(* Initial states *)

FreeBuilder(sizes) ==
    [kind |-> "free", sizes |-> sizes, a |-> 0, b |-> 0, k |-> 0, jump |-> 0]

FnBuilder(a, b, k, jump) ==
    [kind |-> "fn", sizes |-> {}, a |-> a, b |-> b, k |-> k, jump |-> jump]

Scenario(fl, origs, bd, target, mx, outdir) ==
    [files |-> fl, origs |-> origs, builder |-> bd, target |-> target,
     max_iters |-> mx, output_dir |-> outdir]

\* direct calls of compress_pdf_to_size with an arbitrary builder and a
\* small iteration cap
ShallowScenarios ==
    { Scenario(<<PathA>>, <<o>>, FreeBuilder(0..MaxSize), t, mx, d) :
        o \in {1, 2, 3}, t \in {0, 1, 2}, mx \in {0, 1, 2, 3}, d \in {"", "out"} }

\* an arbitrary builder under the default cap
DeepScenarios ==
    { Scenario(<<PathA>>, <<o>>, FreeBuilder(0..MaxSize), t, DefaultMaxIters, "") :
        o \in {2, 3}, t \in {0, 1, 2} }

\* an arbitrary feasibility pattern, caps around the depth of the search
PatternScenarios ==
    { Scenario(<<PathA>>, <<o>>, FreeBuilder({1, 2}), 1, mx, "out") :
        o \in {2, 3}, mx \in {6, 7, DefaultMaxIters, 9} }

\* builders given as functions of the quality
FnBuilders ==
    { FnBuilder(100, 0, 0, 0),        \* size(q) = 100*q
      FnBuilder(50, 1000, 0, 0),      \* size(q) = 1000 + 50*q
      FnBuilder(1, 0, 0, 0),          \* size(q) = q
      FnBuilder(1, -10, 0, 0),        \* size(q) = q - 10
      FnBuilder(1, -10, 11, 1000),    \* 0 at q = 10, then 1000 + q - 10
      FnBuilder(0, 3000, 0, 0),       \* constant
      FnBuilder(-1, 100, 0, 0) }      \* decreasing: size(q) = 100 - q

FnScenarios ==
    { Scenario(<<PathA>>, <<o>>, bd, t, mx, d) :
        o \in {40, 6000}, bd \in FnBuilders,
        t \in {0, 9, 10, 50, 500, 4000, 5000, 9500},
        mx \in {1, 3, 7, DefaultMaxIters}, d \in {"", "out"} }

\* main: a selection of two files, the default cap
BatchScenarios ==
    { Scenario(<<PathA, PathB>>, <<oa, ob>>, FnBuilder(0, s, 0, 0), t,
               DefaultMaxIters, d) :
        oa \in {2, 4}, ob \in {2, 4}, s \in {1, 3}, t \in {2}, d \in {"", "out", "in"} }

\* compress_pdf_to_size called twice on the same input with the same
\* arguments and a builder that is a function of the quality
RepeatScenarios ==
    { Scenario(<<PathA, PathA>>, <<o, o>>, bd, t, mx, d) :
        o \in {40, 6000}, bd \in FnBuilders, t \in {0, 50, 5000},
        mx \in {0, 3, DefaultMaxIters}, d \in {"", "out"} }

Scenarios ==
    ShallowScenarios \cup DeepScenarios \cup PatternScenarios
        \cup FnScenarios \cup BatchScenarios \cup RepeatScenarios

InitialFs(fl, origs) ==
    [p \in AllPaths |->
        IF \E i \in 1..Len(fl) : fl[i] = p
        THEN LET i == CHOOSE j \in 1..Len(fl) : fl[j] = p
             IN  [size |-> origs[i], q |-> 0, of |-> p]
        ELSE None]

\* the runs whose termination is checked: every feasibility pattern at caps
\* around the depth of the search, every builder at small caps
LiveScenarios ==
    ShallowScenarios \cup PatternScenarios \cup FnScenarios \cup BatchScenarios

InitFrom(scs) ==
    /\ \E sc \in scs :
        /\ files = sc.files
        /\ output_dir = sc.output_dir
        /\ target_bytes = sc.target
        /\ max_iters = sc.max_iters
        /\ builder = sc.builder
        /\ fs = InitialFs(sc.files, sc.origs)
        /\ opens = [i \in 1..Len(sc.files) |-> 0]
        /\ outcome = [i \in 1..Len(sc.files) |-> "none"]
    /\ pc = "main"
    /\ idx = 0
    /\ openDocs = {}
    /\ original_size = 0
    /\ low_q = LowQ0
    /\ high_q = HighQ0
    /\ iterations = 0
    /\ q = 0
    /\ best_under = None
    /\ best_under_size = 0
    /\ best_over = None
    /\ best_over_size = NoSize
    /\ chosen_bytes = None
    /\ chosen_size = NoSize
    /\ probes = <<>>
    /\ builds = 0
    /\ writes = <<>>
    /\ runs = <<>>

Init == InitFrom(Scenarios)

LiveInit == InitFrom(LiveScenarios)

----------------------------------------------------------------------------
(* main, lines 206-210 *)

\* for path in file_paths: compress_pdf_to_size(path, ...)
MainNext ==
    /\ pc = "main"
    /\ idx < Len(files)
    /\ idx' = idx + 1
    /\ pc' = "open"
    /\ UNCHANGED <<params, fs, openDocs, opens, outcome, original_size, search,
                   chosen_bytes, chosen_size, writes, runs>>

\* the for loop is exhausted: print("All done!")
MainDone ==
    /\ pc = "main"
    /\ idx = Len(files)
    /\ pc' = "alldone"
    /\ UNCHANGED <<params, fs, idx, openDocs, opens, outcome, original_size,
                   search, chosen_bytes, chosen_size, writes, runs>>

----------------------------------------------------------------------------
(* compress_pdf_to_size *)

\* lines 75-91: getsize, fitz.open, the initial search state
Open ==
    /\ pc = "open"
    /\ original_size' = GetSize(Input)
    /\ openDocs' = openDocs \cup {idx}
    /\ opens' = [opens EXCEPT ![idx] = @ + 1]
    /\ low_q' = StartLow(low_q)
    /\ high_q' = HighQ0
    /\ iterations' = 0
    /\ best_under' = None
    /\ best_under_size' = 0
    /\ best_over' = None
    /\ best_over_size' = NoSize
    /\ probes' = <<>>
    /\ builds' = 0
    /\ pc' = "loop"
    /\ UNCHANGED <<params, fs, idx, outcome, q, chosen_bytes, chosen_size, writes, runs>>

\* line 82: fitz.open raises (corrupt input); nothing catches it, neither
\* here nor in main (lines 206-207), so the program ends with the traceback
OpenFail ==
    /\ pc = "open"
    /\ original_size' = GetSize(Input)
    /\ outcome' = [outcome EXCEPT ![idx] = "Fail"]
    /\ pc' = "crashed"
    /\ UNCHANGED <<params, fs, idx, openDocs, opens, search, chosen_bytes,
                   chosen_size, writes, runs>>

\* lines 93-112: one iteration of the while loop, the builder returns
Probe ==
    /\ pc = "loop"
    /\ LoopCond(low_q, high_q, iterations, max_iters)
    /\ LET qq == Mid(low_q, high_q) IN
       \E size \in BuildSizes(builder, qq) :
          LET pdf_bytes == Candidate(size, qq, Input) IN
          /\ q' = qq
          /\ iterations' = iterations + 1
          /\ builds' = builds + 1
          /\ probes' = Append(probes, pdf_bytes)
          /\ IF Feasible(size, target_bytes)
             THEN /\ IF BetterUnder(size, best_under_size)
                     THEN /\ best_under' = pdf_bytes
                          /\ best_under_size' = size
                     ELSE UNCHANGED <<best_under, best_under_size>>
                  /\ low_q' = RaiseLow(qq)
                  /\ UNCHANGED <<high_q, best_over, best_over_size>>
             ELSE /\ IF BetterOver(size, best_over, best_over_size)
                     THEN /\ best_over' = pdf_bytes
                          /\ best_over_size' = size
                     ELSE UNCHANGED <<best_over, best_over_size>>
                  /\ high_q' = LowerHigh(qq)
                  /\ UNCHANGED <<low_q, best_under, best_under_size>>
    /\ UNCHANGED <<params, fs, pc, idx, openDocs, opens, outcome, original_size,
                   chosen_bytes, chosen_size, writes, runs>>

\* lines 93-98: the builder raises in the iteration (render failure); q and
\* iterations are already assigned, doc.close() at line 114 is not reached
BuildFail ==
    /\ pc = "loop"
    /\ LoopCond(low_q, high_q, iterations, max_iters)
    /\ q' = Mid(low_q, high_q)
    /\ iterations' = iterations + 1
    /\ builds' = builds + 1
    /\ outcome' = [outcome EXCEPT ![idx] = "Fail"]
    /\ pc' = "crashed"
    /\ UNCHANGED <<params, fs, idx, openDocs, opens, original_size, low_q, high_q,
                   best_under, best_under_size, best_over, best_over_size,
                   probes, chosen_bytes, chosen_size, writes, runs>>

\* lines 93, 114: the loop condition is false; doc.close()
LoopExit ==
    /\ pc = "loop"
    /\ ~LoopCond(low_q, high_q, iterations, max_iters)
    /\ openDocs' = CloseDoc(openDocs, idx)
    /\ pc' = "select"
    /\ UNCHANGED <<params, fs, idx, opens, outcome, original_size, search,
                   chosen_bytes, chosen_size, writes, runs>>

\* lines 116-124: the selected candidate
Chosen ==
    IF best_under # None THEN <<best_under, best_under_size>>
    ELSE IF best_over # None THEN <<best_over, best_over_size>>
    ELSE <<None, NoSize>>

\* lines 116-130: nothing selected, or not smaller than the original: return
SelectKeep ==
    /\ pc = "select"
    /\ chosen_bytes' = Chosen[1]
    /\ chosen_size' = Chosen[2]
    /\ KeepOriginal(Chosen[1], Chosen[2], original_size)
    /\ outcome' = [outcome EXCEPT ![idx] = "Keep"]
    /\ pc' = "main"
    /\ UNCHANGED <<params, fs, idx, openDocs, opens, original_size, search, writes>>
    /\ runs' = Append(runs, [input |-> Input, original |-> original_size,
                             probes |-> probes, outcome |-> "Keep",
                             after |-> fs[Input]])

\* lines 116-127: a candidate smaller than the original is selected
SelectReplace ==
    /\ pc = "select"
    /\ chosen_bytes' = Chosen[1]
    /\ chosen_size' = Chosen[2]
    /\ ~KeepOriginal(Chosen[1], Chosen[2], original_size)
    /\ pc' = "write"
    /\ UNCHANGED <<params, fs, idx, openDocs, opens, outcome, original_size,
                   search, writes, runs>>

\* lines 132-148: write chosen_bytes to the output path, return
Write ==
    /\ pc = "write"
    /\ LET output_path == OutputPath(Input, output_dir) IN
       /\ fs' = [fs EXCEPT ![output_path] = chosen_bytes]
       /\ writes' = Append(writes, [path |-> output_path, bytes |-> chosen_bytes,
                                    input |-> Input, original |-> original_size,
                                    open |-> openDocs, run |-> idx])
    /\ outcome' = [outcome EXCEPT ![idx] = "Replace"]
    /\ pc' = "main"
    /\ UNCHANGED <<params, idx, openDocs, opens, original_size, search,
                   chosen_bytes, chosen_size>>
    /\ runs' = Append(runs, [input |-> Input, original |-> original_size,
                             probes |-> probes, outcome |-> "Replace",
                             after |-> fs'[Input]])

Next ==
    \/ MainNext
    \/ MainDone
    \/ Open
    \/ OpenFail
    \/ Probe
    \/ BuildFail
    \/ LoopExit
    \/ SelectKeep
    \/ SelectReplace
    \/ Write

Spec == Init /\ [][Next]_vars

\* the program is one sequential thread: a step that can be taken is taken
FairSpec == LiveInit /\ [][Next]_vars /\ WF_vars(Next)

----------------------------------------------------------------------------
(* Helpers of the properties *)

\* the run of the file at idx has left the while loop normally
LoopExited ==
    \/ pc \in {"select", "write"}
    \/ pc \in {"main", "alldone"} /\ idx >= 1 /\ outcome[idx] \in {"Keep", "Replace"}

\* compress_pdf_to_size has decided the outcome of the file at idx
Selected ==
    \/ pc = "write"
    \/ pc \in {"main", "alldone"} /\ idx >= 1 /\ outcome[idx] \in {"Keep", "Replace"}

Replaces == pc = "write" \/ (idx >= 1 /\ outcome[idx] = "Replace")

Terminated == pc \in {"alldone", "crashed"}

SetMax(S) == CHOOSE x \in S : \A y \in S : y <= x
SetMin(S) == CHOOSE x \in S : \A y \in S : x <= y

ProbedSizes == {probes[i].size : i \in 1..Len(probes)}

----------------------------------------------------------------------------
(* The properties *)

\* C1 (never-worse): every file write of a run writes the selected candidate
\* and that candidate is strictly smaller than the size the input had when
\* the run started; a run that reaches the write has chosen_size <
\* original_size.  No candidate of size >= original_size is written.
C1_NeverWorse ==
    /\ \A i \in 1..Len(writes) :
          /\ writes[i].bytes # None
          /\ writes[i].bytes.size < writes[i].original
          /\ fs[writes[i].path].size < writes[i].original
             \/ \E j \in (i+1)..Len(writes) : writes[j].path = writes[i].path
    /\ pc = "write" => chosen_bytes # None /\ chosen_size < original_size
                          /\ chosen_bytes.size = chosen_size

\* a batch in which one file was replaced and the next one is kept although
\* a candidate was selected, because it is not smaller than the original
C1_Witness ==
    /\ pc = "main" /\ idx = 2
    /\ Len(writes) = 1
    /\ outcome[2] = "Keep"
    /\ chosen_bytes # None /\ chosen_size >= original_size

\* C2 (feasibility partition): whenever best_under is present its size is
\* at most target_bytes, whenever best_over is present its size is above
\* target_bytes, in every state.
C2_FeasibilityPartition ==
    /\ best_under # None =>
          best_under_size <= target_bytes /\ best_under.size = best_under_size
    /\ best_over # None =>
          best_over_size > target_bytes /\ best_over.size = best_over_size

\* in the loop with both slots filled
C2_Witness ==
    /\ pc = "loop"
    /\ best_under # None /\ best_over # None
    /\ best_under_size = target_bytes

\* the builder is a function of the quality, strictly increasing on [10,95]
StrictlyIncreasing(bd) ==
    /\ bd.kind = "fn"
    /\ \A x \in LowQ0..(HighQ0 - 1) : FnSize(bd, x) < FnSize(bd, x + 1)

\* the qualities at which the builder's result is at or under the target
FeasibleQs == {x \in Qualities : FnSize(builder, x) <= target_bytes}

\* C3 (preference order): with a strictly increasing builder and max_iters
\* = 8, if some quality in [10,95] is feasible then at loop exit best_under
\* is the candidate built at the largest feasible quality; for size(q) =
\* 100*q and target 5000 the selected candidate is the one of q = 50, size
\* 5000.
C3_PreferenceOrder ==
    (/\ pc = "select"
     /\ max_iters = DefaultMaxIters
     /\ StrictlyIncreasing(builder)
     /\ FeasibleQs # {})
    => /\ best_under # None
       /\ best_under.q = SetMax(FeasibleQs)
       /\ best_under_size = FnSize(builder, SetMax(FeasibleQs))
       /\ (builder = FnBuilder(100, 0, 0, 0) /\ target_bytes = 5000)
             => Chosen[1].q = 50 /\ Chosen[2] = 5000

\* C3 restricted to the runs in which the largest feasible candidate is not
\* empty (size > 0): kept to show where the code and C3 part.
C3_PreferenceOrderNonEmpty ==
    (/\ pc = "select"
     /\ max_iters = DefaultMaxIters
     /\ StrictlyIncreasing(builder)
     /\ FeasibleQs # {}
     /\ FnSize(builder, SetMax(FeasibleQs)) > 0)
    => /\ best_under # None
       /\ best_under.q = SetMax(FeasibleQs)
       /\ best_under_size = FnSize(builder, SetMax(FeasibleQs))
       /\ (builder = FnBuilder(100, 0, 0, 0) /\ target_bytes = 5000)
             => Chosen[1].q = 50 /\ Chosen[2] = 5000

\* the concrete run of C3: size(q) = 100*q, target 5000, loop left
C3_ConcreteRun ==
    /\ pc = "select"
    /\ max_iters = DefaultMaxIters
    /\ builder = FnBuilder(100, 0, 0, 0) /\ target_bytes = 5000
    /\ best_under.q = 50 /\ best_under_size = 5000

\* C4 (per-file error isolation): when the program has ended, every file of
\* the selection has been processed (replaced, kept or reported failed): a
\* failure in one file does not stop the files after it.
C4_ErrorIsolation ==
    Terminated => \A i \in 1..Len(files) : outcome[i] # "none"

\* the all-infeasible precondition of C5: every quality is above the target
\* (for a builder free to return any size: every size it returned was)
AllInfeasible ==
    IF builder.kind = "free"
    THEN \A i \in 1..Len(probes) : probes[i].size > target_bytes
    ELSE \A x \in Qualities : FnSize(builder, x) > target_bytes

\* C5 (all-infeasible case): if every quality is infeasible and max_iters >=
\* 1, then best_under is absent at loop exit, the selected candidate is
\* best_over, its size is the minimum of the sizes probed in the run, and the
\* outcome is Replace exactly when that size is below original_size (Keep
\* otherwise).
C5_AllInfeasible ==
    (LoopExited /\ AllInfeasible /\ max_iters >= 1)
    => /\ best_under = None
       /\ best_over # None
       /\ Chosen = <<best_over, best_over_size>>
       /\ best_over_size = SetMin(ProbedSizes)
       /\ Selected =>
            /\ chosen_bytes = best_over /\ chosen_size = best_over_size
            /\ Replaces <=> chosen_size < original_size
            /\ (pc # "write" /\ outcome[idx] = "Keep") <=> chosen_size >= original_size

\* an all-infeasible run in which a later probe was larger than an earlier
\* one, replaced by best_over
C5_Witness ==
    /\ pc = "main" /\ idx >= 1 /\ outcome[idx] = "Replace"
    /\ AllInfeasible /\ max_iters >= 1
    /\ Len(probes) >= 2
    /\ probes[Len(probes)].size > best_over_size

\* C6 (document handle release): at most one handle is opened per file, and
\* no handle is open once control is out of compress_pdf_to_size, however it
\* left (return after Replace or Keep, or an exception).
C6_HandleRelease ==
    /\ \A i \in 1..Len(files) : opens[i] <= 1
    /\ pc \in {"main", "alldone", "crashed"} => openDocs = {}

\* C7 (probe domain, no repeats): every quality handed to the builder is in
\* [10,95], no quality is built twice in a run, and the qualities built lie
\* outside the remaining interval [low_q, high_q].
C7_ProbeDomain ==
    /\ \A i \in 1..Len(probes) :
          /\ probes[i].q \in Qualities
          /\ probes[i].q \notin low_q..high_q
          /\ \A j \in 1..Len(probes) : probes[i].q = probes[j].q => i = j
    /\ (pc \in {"loop", "select", "write", "crashed"} /\ builds > 0) =>
          /\ q \in Qualities
          /\ \A i \in 1..Len(probes) : i < builds => probes[i].q # q

\* a run of seven probes, the last one at an end of the domain
C7_Witness ==
    /\ pc = "select"
    /\ Len(probes) = 7
    /\ q \in {LowQ0, HighQ0}

\* C8 (monotonic bounds): in a step of the loop low_q does not decrease,
\* high_q does not increase and iterations does not decrease; an iteration
\* that runs to its end sets exactly one of low_q (to q+1) and high_q (to
\* q-1) and leaves the other as it was.
C8_MonotonicBounds ==
    [][pc = "loop" =>
         /\ low_q' >= low_q
         /\ high_q' <= high_q
         /\ iterations' >= iterations
         /\ (pc' = "loop" /\ iterations' # iterations) =>
              /\ iterations' = iterations + 1
              /\ \/ low_q' = q' + 1 /\ low_q' # low_q /\ high_q' = high_q
                 \/ high_q' = q' - 1 /\ high_q' # high_q /\ low_q' = low_q]_vars

\* in the loop after both bounds have moved
C8_Witness ==
    /\ pc = "loop"
    /\ low_q > LowQ0 /\ high_q < HighQ0
    /\ iterations >= 3

\* C9 (bounded termination): the loop is left (it never runs forever); it is
\* left by the normal exit only with low_q > high_q or iterations =
\* max_iters, and with one of these true no further builder call is made;
\* the builder is invoked at most max_iters times in a run.
C9_BoundedTermination ==
    /\ [](builds <= max_iters /\ iterations <= max_iters /\ builds = iterations)
    /\ [](pc = "select" => (low_q > high_q \/ iterations = max_iters))
    /\ [][(pc = "loop" /\ (low_q > high_q \/ iterations = max_iters))
            => (pc' = "select" /\ builds' = builds)]_vars
    /\ [][(pc = "loop" /\ low_q <= high_q /\ iterations # max_iters)
            => builds' = builds + 1]_vars
    /\ (pc = "loop" ~> pc # "loop")
    /\ <>Terminated

\* a run cut off by the cap with the bounds not crossed, and max_iters > 0
C9_Witness ==
    /\ pc = "select"
    /\ iterations = max_iters /\ low_q <= high_q
    /\ max_iters = 3

\* C10 (iteration cap respected): with max_iters = 3 a run whose loop has
\* been left made exactly 3 builder calls.
C10_IterationCap ==
    (LoopExited /\ max_iters = 3) => (builds = 3 /\ Len(probes) = 3)

\* max_iters = 3 and the loop left with the narrowest interval three probes
\* can reach
C10_Witness ==
    /\ pc = "select" /\ max_iters = 3
    /\ builds = 3
    /\ high_q - low_q = 9

\* the candidate lines 119-124 select from the two slots
SelectedCandidate == IF best_under # None THEN best_under ELSE best_over

\* the writes of the log made while the file at position i was processed
WritesOf(i) == {k \in 1..Len(writes) : writes[k].run = i}

\* C11 (write discipline): the file system changes only in the write step,
\* after the loop has ended, at one path, to exactly the bytes of the
\* selected candidate; no call writes more than once, and a call that ends
\* with Keep writes nothing: the file system is the same as when it started.
C11_WriteDiscipline ==
    /\ [][fs' # fs =>
            /\ pc = "write" /\ ~LoopCond(low_q, high_q, iterations, max_iters)
            /\ SelectedCandidate # None
            /\ fs' = [fs EXCEPT ![OutputPath(Input, output_dir)] = SelectedCandidate]
            /\ Len(writes') = Len(writes) + 1]_vars
    /\ [][Len(writes') # Len(writes) => (pc = "write" /\ WritesOf(idx) = {})]_vars
    /\ [](\A i \in 1..Len(files) :
            /\ Cardinality(WritesOf(i)) <= 1
            /\ outcome[i] \in {"Keep", "Fail", "none"} => WritesOf(i) = {})
    /\ [][(pc = "select" /\ pc' = "main") => (fs' = fs /\ writes' = writes)]_vars

\* a batch whose first file was kept and whose second file was replaced by
\* the selected candidate
C11_Witness ==
    /\ pc = "main" /\ idx = 2
    /\ outcome = <<"Keep", "Replace">>
    /\ Len(writes) = 1
    /\ fs[writes[1].path] = SelectedCandidate
    /\ SelectedCandidate # None

\* C12 (idempotence of Keep): with a builder that is a function of the
\* quality, when a call on an input returned Keep and a second call on the
\* same input with the same arguments has returned, the second call built
\* the same qualities in the same order, returned Keep too, and the input
\* file still has the content it had before the first call.
C12_KeepIdempotent ==
    (/\ Len(runs) = 2
     /\ builder.kind = "fn"
     /\ runs[1].input = runs[2].input
     /\ runs[1].outcome = "Keep")
    => /\ runs[2].outcome = "Keep"
       /\ runs[2].probes = runs[1].probes
       /\ runs[2].original = runs[1].original
       /\ fs[runs[1].input] = [size |-> runs[1].original, q |-> 0,
                               of |-> runs[1].input]
       /\ runs[1].after = fs[runs[1].input]
       /\ writes = <<>>

\* two calls on the same input that both returned Keep after a full search
\* in which a candidate was selected
C12_Witness ==
    /\ Len(runs) = 2
    /\ builder.kind = "fn"
    /\ runs[1].input = runs[2].input
    /\ runs[1].outcome = "Keep" /\ runs[2].outcome = "Keep"
    /\ Len(runs[2].probes) >= 6
    /\ chosen_bytes # None

\* no candidate the builder returned in this call is at or under the target
NoFeasibleProbe == \A i \in 1..Len(probes) : probes[i].size > target_bytes

\* no candidate the builder returned in this call is smaller than the input
NoSmallerCandidate == \A i \in 1..Len(probes) : probes[i].size >= original_size

\* C13 (infeasibility is not an error): the comparisons and the arithmetic of
\* the search and of the selection never meet None where a number or bytes
\* are needed (lines 109, 127, 141-146), so they raise nothing; when no
\* probe was feasible or no candidate is smaller than the original, the call
\* goes from the end of the loop to its return (Keep, or Replace with
\* best_over, which is above the target), and main goes on to the next file.
C13_InfeasibleNoError ==
    /\ [](/\ (pc = "loop" /\ best_over # None) => best_over_size # NoSize
          /\ (pc = "select" /\ Chosen[1] # None) => Chosen[2] # NoSize
          /\ pc = "write" => (chosen_bytes # None /\ chosen_size # NoSize))
    /\ []((pc = "main" /\ idx >= 1 /\ (NoFeasibleProbe \/ NoSmallerCandidate)) =>
            /\ outcome[idx] \in {"Keep", "Replace"}
            /\ NoSmallerCandidate => outcome[idx] = "Keep"
            /\ (outcome[idx] = "Replace" /\ NoFeasibleProbe) =>
                  /\ chosen_bytes = best_over
                  /\ chosen_size > target_bytes
                  /\ chosen_size < original_size)
    /\ [][(pc = "select" /\ (NoFeasibleProbe \/ NoSmallerCandidate))
            => pc' \in {"main", "write"}]_vars
    /\ [][pc = "write" => pc' = "main"]_vars
    /\ \A i \in 1..2 :
          /\ (pc = "select" /\ idx = i /\ (NoFeasibleProbe \/ NoSmallerCandidate))
                ~> (pc = "main" /\ idx = i /\ outcome[i] \in {"Keep", "Replace"})
          /\ (pc = "main" /\ idx = i /\ i < Len(files))
                ~> (pc = "open" /\ idx = i + 1)

\* main is at the second file after the first one was kept, none of its
\* candidates being at or under the target
C13_Witness ==
    /\ pc = "open" /\ idx = 2
    /\ outcome[1] = "Keep"
    /\ Len(probes) > 0 /\ NoFeasibleProbe

\* positions in probes of the feasible / infeasible candidates of the call
FeasibleProbes == {i \in 1..Len(probes) : probes[i].size <= target_bytes}
InfeasibleProbes == {i \in 1..Len(probes) : probes[i].size > target_bytes}

\* the earliest probe of the largest (smallest) size among those at S
EarliestLargest(S) ==
    SetMin({i \in S : \A j \in S : probes[j].size <= probes[i].size})
EarliestSmallest(S) ==
    SetMin({i \in S : \A j \in S : probes[j].size >= probes[i].size})

\* C14 (comparator-based slots): at loop exit best_under is the feasible
\* probed candidate of maximum size, the earliest one on equal sizes (absent
\* when no probe was feasible), and best_over is the infeasible probed
\* candidate of minimum size, the earliest one on equal sizes.
C14_ComparatorSlots ==
    pc = "select" =>
        /\ IF FeasibleProbes = {} THEN best_under = None
           ELSE best_under = probes[EarliestLargest(FeasibleProbes)]
        /\ IF InfeasibleProbes = {} THEN best_over = None
           ELSE best_over = probes[EarliestSmallest(InfeasibleProbes)]

\* C14 with the feasible candidates of size 0 left out of the comparison for
\* best_under: what the code computes.
PositiveFeasibleProbes == {i \in FeasibleProbes : probes[i].size > 0}

C14_ComparatorSlotsNonEmpty ==
    pc = "select" =>
        /\ IF PositiveFeasibleProbes = {} THEN best_under = None
           ELSE best_under = probes[EarliestLargest(PositiveFeasibleProbes)]
        /\ IF InfeasibleProbes = {} THEN best_over = None
           ELSE best_over = probes[EarliestSmallest(InfeasibleProbes)]

\* the second half of C14: in the loop a slot changes only to the candidate
\* just built, and only when that candidate is strictly larger (best_under) or
\* strictly smaller (best_over) than the one the slot held.
C14_ReplacedOnlyByBetter ==
    [][pc = "loop" =>
         /\ best_under' # best_under =>
               /\ best_under' = probes'[Len(probes')]
               /\ best_under'.size <= target_bytes
               /\ best_under'.size > best_under.size
         /\ best_over' # best_over =>
               /\ best_over' = probes'[Len(probes')]
               /\ best_over'.size > target_bytes
               /\ best_over = None \/ best_over'.size < best_over.size]_vars

\* C15 (feasible probe implies feasible choice): at loop exit best_under is
\* present exactly when some probed candidate had size <= target_bytes, and
\* the policy selects best_over only when no probe of the call was feasible.
C15_FeasibleChoice ==
    pc = "select" =>
        /\ best_under # None <=> FeasibleProbes # {}
        /\ (Chosen[1] # None /\ Chosen[1] = best_over) => FeasibleProbes = {}

\* C16 (output directory): with an output directory given, every write goes
\* to output_dir joined with the base name of its input and leaves the input
\* file as it was; and when the batch has ended, the output of every
\* replaced input is still there with the content written for that input.
C16_OutputDir ==
    output_dir # "" =>
        /\ \A k \in 1..Len(writes) :
              /\ writes[k].path = Join(output_dir, Basename(writes[k].input))
              /\ fs[writes[k].input] =
                    [size |-> writes[k].original, q |-> 0, of |-> writes[k].input]
        /\ pc = "alldone" =>
              \A k \in 1..Len(writes) :
                 /\ fs[writes[k].path] = writes[k].bytes
                 /\ writes[k].bytes.of = writes[k].input

\* the parts of C16 that do not depend on where the output directory is: the
\* destination of every write, and that the outputs of a batch are all
\* there at its end (the selections of the model have distinct base names)
C16_Destination ==
    output_dir # "" =>
        /\ \A k \in 1..Len(writes) :
              writes[k].path = Join(output_dir, Basename(writes[k].input))
        /\ pc = "alldone" =>
              \A k \in 1..Len(writes) :
                 /\ fs[writes[k].path] = writes[k].bytes
                 /\ writes[k].bytes.of = writes[k].input

\* C16 for an output directory that is not the directory of an input
C16_OtherDir ==
    (output_dir # "" /\ \A i \in 1..Len(files) : files[i][1] # output_dir)
        => C16_OutputDir

\* C17 (close before write): whenever the output file is written the
\* document handle of the input has been closed (none is open), for an
\* in-place overwrite too; the builder is only called with the handle open,
\* and not at all once the loop is left and the handle closed.
C17_CloseBeforeWrite ==
    /\ [](pc = "write" => openDocs = {})
    /\ [](\A k \in 1..Len(writes) : writes[k].open = {})
    /\ [][builds' = builds + 1 => (pc = "loop" /\ idx \in openDocs)]_vars
    /\ [][(pc = "select" \/ pc = "write")
            => (builds' = builds /\ probes' = probes)]_vars

\* an in-place overwrite has just been made, after a full search
C17_Witness ==
    /\ pc = "main" /\ idx = 1
    /\ output_dir = ""
    /\ Len(writes) = 1
    /\ writes[1].path = files[1]
    /\ fs[files[1]] = chosen_bytes
    /\ builds >= 6

\* C18 (the default cap never binds): with max_iters >= 7 a call whose loop
\* has been left ended with low_q > high_q after exactly 6 or 7 builder
\* calls; with the default max_iters = 8 it ended with iterations <
\* max_iters.
C18_DefaultCapNeverBinds ==
    (LoopExited /\ max_iters >= 7) =>
        /\ low_q > high_q
        /\ builds \in {6, 7} /\ Len(probes) = builds /\ iterations = builds
        /\ max_iters = DefaultMaxIters => iterations < max_iters

\* the longest search under the default cap, with a builder free to return
\* any size
C18_Witness ==
    /\ pc = "select"
    /\ max_iters = DefaultMaxIters
    /\ builder.kind = "free"
    /\ builds = 7 /\ low_q > high_q

====
